---- MODULE Spec2Model ----
(***************************************************************************)
(* Model of process_manifest.py: download_manifest and the functions it    *)
(* calls (get_prioritized_endpoint, get_url_obj, get_fasp_obj,             *)
(* get_file_size, get_buffer, checksum_matches, the connection caches).    *)
(*                                                                         *)
(* Strings the code inspects character by character (scheme tokens, the    *)
(* head of a URL) are sequences of one-character strings.  File contents   *)
(* are sequences of bytes; the byte at offset k of a remote file is k+1,   *)
(* so a duplicated or skipped byte changes the assembled sequence, and 0   *)
(* is a byte that belongs to no remote file.  The code never looks at the  *)
(* value of a byte except through MD5, which is modelled as collision      *)
(* free.  HTTP servers are taken to honour the Range header and FTP        *)
(* servers the REST command.                                               *)
(***************************************************************************)
EXTENDS Integers, Sequences, FiniteSets, TLC

\* ---------------------------------------------------------------- bounds
MaxEntries == 2
MaxSize == 3
MaxBlock == 2

\* ------------------------------------------------------- character strings
http == <<"h", "t", "t", "p">>
https == <<"h", "t", "t", "p", "s">>
ftp == <<"f", "t", "p">>
s3 == <<"s", "3">>
fasp == <<"f", "a", "s", "p">>
EmptyStr == <<>>

HTTP == <<"H", "T", "T", "P">>
FTP == <<"F", "T", "P">>
S3 == <<"S", "3">>
FASP == <<"F", "A", "S", "P">>

\* str.lower() and str.upper(), on the characters the model uses
LowerChar(c) ==
  CASE c = "H" -> "h" [] c = "T" -> "t" [] c = "P" -> "p" [] c = "F" -> "f"
    [] c = "S" -> "s" [] c = "A" -> "a" [] OTHER -> c

UpperChar(c) ==
  CASE c = "h" -> "H" [] c = "t" -> "T" [] c = "p" -> "P" [] c = "f" -> "F"
    [] c = "s" -> "S" [] c = "a" -> "A" [] OTHER -> c

Lower(s) == [k \in 1..Len(s) |-> LowerChar(s[k])]

Upper(s) == [k \in 1..Len(s) |-> UpperChar(s[k])]

\* str.startswith(prefix)
StartsWith(s, prefix) ==
  /\ Len(prefix) <= Len(s)
  /\ SubSeq(s, 1, Len(prefix)) = prefix

\* ------------------------------------------------------------------- URLs
\* A URL is scheme://host/path/base; the empty string is the one "URL" that
\* "".split(',') yields for an entry without URLs.
MkUrl(sch, h, p, b) == [scheme |-> sch, host |-> h, path |-> p, base |-> b]

EmptyUrl == MkUrl(EmptyStr, "", "", "")

U_http == MkUrl(http, "a", "data", "x.bin")
U_https == MkUrl(https, "a", "data", "x.bin")
U_ftp == MkUrl(ftp, "b", "data", "x.bin")
U_s3 == MkUrl(s3, "bkt", "HMDEMO", "x.bin")
U_fasp == MkUrl(fasp, "c", "data", "x.bin")
U_http_y == MkUrl(http, "d", "data", "y.bin")

\* The text of a URL up to and including "://"; what follows is host, path
\* and base and holds no scheme token.
UrlText(u) == IF u = EmptyUrl THEN EmptyStr ELSE u.scheme \o <<":", "/", "/">>

\* url.split(':')[0]
SchemeOf(u) == u.scheme

\* url.split('/')[-1]
Basename(u) == u.base

\* manifest_urls.split(',') and priorities.split(','): the empty string
\* splits into one empty string
SplitUrls(urls) == IF urls = <<>> THEN <<EmptyUrl>> ELSE urls

SplitPriorities(p) == IF p = <<>> THEN <<EmptyStr>> ELSE p

\* ------------------------------------------------ get_prioritized_endpoint
\* The rewrite of the demo data's S3 URLs
DemoRewrite(u) ==
  IF u.scheme = s3 /\ u.path = "HMDEMO" THEN [u EXCEPT !.path = "DEMO"] ELSE u

\* The priority tokens in effect: the caller's, or the default order chosen
\* by the instance-metadata probe when the first token is empty
EffectivePriorities(priorities, md) ==
  LET eps == SplitPriorities(priorities)
  IN IF eps[1] = EmptyStr
       THEN IF md THEN <<S3, HTTP, FTP>> ELSE <<HTTP, FTP, S3>>
       ELSE eps

\* for url in urls: if url.startswith(ep.lower()): url_list.append(url)
RECURSIVE MatchUrls(_, _)
MatchUrls(urls, ep) ==
  IF urls = <<>> THEN <<>>
  ELSE (IF StartsWith(UrlText(Head(urls)), Lower(ep))
          THEN <<DemoRewrite(Head(urls))>> ELSE <<>>)
       \o MatchUrls(Tail(urls), ep)

\* Mutant of ScanPriorities: the two loops are nested the other way round,
\* `for url in urls: for ep in eps`
RECURSIVE MatchTokens(_, _)
MatchTokens(eps, u) ==
  IF eps = <<>> THEN <<>>
  ELSE (IF StartsWith(UrlText(u), Lower(Head(eps)))
          THEN <<DemoRewrite(u)>> ELSE <<>>)
       \o MatchTokens(Tail(eps), u)

RECURSIVE ScanPriorities_url_major(_, _)
ScanPriorities_url_major(eps, urls) ==
  IF urls = <<>> THEN <<>>
  ELSE MatchTokens(eps, Head(urls)) \o ScanPriorities_url_major(eps, Tail(urls))

\* for ep in eps: ...
RECURSIVE ScanPriorities(_, _)
ScanPriorities(eps, urls) ==
  IF eps = <<>> THEN <<>>
  ELSE MatchUrls(urls, Head(eps)) \o ScanPriorities(Tail(eps), urls)

get_prioritized_endpoint(manifest_urls, priorities, md) ==
  ScanPriorities(EffectivePriorities(priorities, md), SplitUrls(manifest_urls))

\* ------------------------------------------------------------ file contents
\* The remote file of size n: the byte at offset k is k + 1
RemoteContent(n) == [k \in 1..n |-> k]

\* A file that holds one byte of no remote file
Foreign == <<0>>

\* hashlib.md5(...).hexdigest(): one digest per content
Md5Hex(data) == [hex |-> data]

\* ------------------------------------------------------------- file system
Bases == {"x.bin", "y.bin"}

\* destination/<base> and destination/<base>.partial
FinalPath(b) == [base |-> b, partial |-> FALSE]

PartialPath(b) == [base |-> b, partial |-> TRUE]

Paths == {FinalPath(b) : b \in Bases} \cup {PartialPath(b) : b \in Bases}

NoFile == [exists |-> FALSE, data |-> <<>>]

File(data) == [exists |-> TRUE, data |-> data]

\* Mutant of Exists: the test looks at the other of the two paths of a file
Exists_other_path(disk, p) ==
  IF p.base = "" THEN ~p.partial ELSE disk[[p EXCEPT !.partial = ~p.partial]].exists

\* os.path.exists: destination/ itself (the name built from the empty URL)
\* is the destination directory
Exists(disk, p) == IF p.base = "" THEN ~p.partial ELSE disk[p].exists

\* os.path.getsize
GetSize(disk, p) == Len(disk[p].data)

\* Mutant of OpenAppend: the file is opened in mode 'wb', which empties it
OpenAppend_truncating(disk, p) == [disk EXCEPT ![p] = File(<<>>)]

\* open(path, 'ab'): creates the file when it is missing, keeps its bytes
OpenAppend(disk, p) ==
  IF disk[p].exists THEN disk ELSE [disk EXCEPT ![p] = File(<<>>)]

\* Mutant of WriteAppend: the file was opened in mode 'wb' and loses what
\* it held
WriteAppend_truncating(disk, p, buffer) == [disk EXCEPT ![p] = File(buffer)]

\* file.write(buffer) on a file opened in append mode
WriteAppend(disk, p, buffer) ==
  [disk EXCEPT ![p] = File(disk[p].data \o buffer)]

\* shutil.move(tmp_file_name, file_name)
Move(disk, from, to) ==
  [disk EXCEPT ![to] = disk[from], ![from] = NoFile]

\* Mutant of checksum_matches: the comparison is lost and every file passes
checksum_matches_always(disk, file_path, original_md5) == disk[file_path].exists

\* --------------------------------------------------------- checksum_matches
\* md5.hexdigest() == original_md5, over the whole file
checksum_matches(disk, file_path, original_md5) ==
  Md5Hex(disk[file_path].data) = original_md5

\* ---------------------------------------------------------------- inputs
\* The manifest's entries: the URL lists and the expected digests
UrlLists ==
  {<<>>, <<U_http>>, <<U_https>>, <<U_ftp>>, <<U_s3>>, <<U_fasp>>,
   <<U_http, U_ftp>>, <<U_ftp, U_http>>, <<U_https, U_http>>,
   <<U_http, U_ftp, U_s3>>, <<U_http_y, U_ftp>>}

Digests == {Md5Hex(RemoteContent(MaxSize))}

Entries == [urls : UrlLists, md5 : Digests]

\* The priorities argument, split at the commas (<<>> is the empty string)
PriorityLists ==
  {<<>>, <<http, https>>, <<ftp, http>>, <<S3, fasp>>}

BlockSizes == 1..MaxBlock

\* The partial files an earlier, interrupted run can have left
InitialPartials == {RemoteContent(k) : k \in 1..(MaxSize - 1)} \cup {Foreign}

\* ------------------------------------------------------------ the transports
\* What get_url_obj returns: a network object or "error"; "" before any open
NoRes == [kind |-> "", size |-> 0, pos |-> 0]

ErrorRes == [kind |-> "error", size |-> 0, pos |-> 0]

\* A network object on a remote file of `size` bytes; an HTTP response is
\* positioned at the offset of its Range header
NetObj(kind, size, pos) == [kind |-> kind, size |-> size, pos |-> pos]

\* One outcome of a call that opens a candidate: the value returned or the
\* exception raised, the connection caches after it, the network calls made
Outcome(res, exc, ftpc, s3c, net) ==
  [res |-> res, exc |-> exc, ftp |-> ftpc, s3 |-> s3c, net |-> net]

\* A connection object held by a cache under `key`; serial tells the
\* connections made for one key apart (the first one has serial 1)
Conn(key, serial) == [key |-> key, serial |-> serial]

NoConn == Conn(EmptyStr, 0)

\* key in CACHE
Cached(cache, key) == \E c \in cache : c.key = key

\* CACHE[key]
Lookup(cache, key) == CHOOSE c \in cache : c.key = key

\* One outcome of a cache lookup: the connection returned or the exception
\* raised, and the cache after it
ConnResult(conn, exc, cache) == [conn |-> conn, exc |-> exc, cache |-> cache]

\* Mutant of get_ftp_connection: connects on every call and stores the new
\* connection in place of the cached one
get_ftp_connection_always_new(ftpc, host) ==
  LET serial == IF Cached(ftpc, host) THEN Lookup(ftpc, host).serial + 1 ELSE 1
  IN  {ConnResult(NoConn, TRUE, ftpc),
       ConnResult(Conn(host, serial), FALSE,
                  {c \in ftpc : c.key # host} \cup {Conn(host, serial)})}

\* get_ftp_connection(host): the cached connection, or, for a host not yet
\* cached, FTP(host) or login raises and nothing is stored, or the new
\* connection is stored and returned
get_ftp_connection(ftpc, host) ==
  IF Cached(ftpc, host) THEN {ConnResult(Lookup(ftpc, host), FALSE, ftpc)}
  ELSE {ConnResult(NoConn, TRUE, ftpc),
        ConnResult(Conn(host, 1), FALSE, ftpc \cup {Conn(host, 1)})}

\* get_s3_connection(): the cached connection, or a new one stored under
\* 'S3'; boto.connect_s3(anon=True) makes no network call
get_s3_connection(s3c) ==
  IF Cached(s3c, "S3") THEN {ConnResult(Lookup(s3c, "S3"), FALSE, s3c)}
  ELSE {ConnResult(Conn("S3", 1), FALSE, s3c \cup {Conn("S3", 1)})}

\* get_url_obj(url, endpoint, http_header): every outcome the remote side
\* can produce.  range_start is the offset of http_header['Range'].
get_url_obj(u, endpoint, range_start, ftpc, s3c) ==
  IF endpoint = HTTP THEN
    \* every exception of urlopen is caught; a Range at or past the end of a
    \* non-empty file is refused (416)
    {Outcome(ErrorRes, FALSE, ftpc, s3c, 1)} \cup
    {Outcome(NetObj("HTTP", n, range_start), FALSE, ftpc, s3c, 1) :
       n \in {m \in 0..MaxSize : range_start < m \/ (range_start = 0 /\ m = 0)}}
  ELSE IF endpoint = FTP THEN
    \* get_ftp_connection raises; mlsd raises; mlsd lists nothing; mlsd
    \* lists the file
    UNION {IF c.exc THEN {Outcome(NoRes, TRUE, c.cache, s3c, 1)}
           ELSE {Outcome(NoRes, TRUE, c.cache, s3c, 1),
                 Outcome(ErrorRes, FALSE, c.cache, s3c, 1)} \cup
                {Outcome(NetObj("FTP", n, 0), FALSE, c.cache, s3c, 1) :
                   n \in 0..MaxSize} :
           c \in get_ftp_connection(ftpc, u.host)}
  ELSE IF endpoint = S3 THEN
    \* get_bucket raises; get_key returns None; get_key returns the key
    UNION {{Outcome(NoRes, TRUE, ftpc, c.cache, 1),
            Outcome(ErrorRes, FALSE, ftpc, c.cache, 1)} \cup
           {Outcome(NetObj("S3", n, 0), FALSE, ftpc, c.cache, 1) :
              n \in 0..MaxSize} :
           c \in get_s3_connection(s3c)}
  ELSE
    \* no branch for the endpoint: "error", without any network call
    {Outcome(ErrorRes, FALSE, ftpc, s3c, 0)}

\* get_fasp_obj(url): the function takes (url, file_name, username,
\* password) and is called with url alone, so the call raises TypeError
get_fasp_obj(u, ftpc, s3c) == {Outcome(NoRes, TRUE, ftpc, s3c, 0)}

\* The bytes from offset `from` (0-based) to offset `to` inclusive of the
\* remote file of `size` bytes, as a byte-range request returns them
RangeOf(size, from, to) ==
  IF from >= size THEN <<>>
  ELSE SubSeq(RemoteContent(size), from + 1, (IF to < size - 1 THEN to ELSE size - 1) + 1)

\* get_buffer for HTTP: res.read(block_size)
HttpRead(r, block_size) == RangeOf(r.size, r.pos, r.pos + block_size - 1)

\* get_buffer for S3: a Range request from start_pos, closed at range_end
\* when range_end <= max_range and open-ended otherwise
S3Read(r, block_size, start_pos, max_range) ==
  LET range_end == start_pos + block_size - 1
  IN IF range_end <= max_range
       THEN RangeOf(r.size, start_pos, range_end)
       ELSE RangeOf(r.size, start_pos, r.size - 1)

\* get_buffer for FTP: retrbinary(..., rest=start_pos) streams the file from
\* start_pos on
FtpRetr(r, start_pos) == RangeOf(r.size, start_pos, r.size - 1)

\* ------------------------------------------------------------------ state
VARIABLES
  priorities,    \* download_manifest's argument, split at the commas
  block_size,    \* download_manifest's argument
  n_entries,     \* len(manifest)
  disk,          \* the files of the destination directory
  FTP_CONNS,     \* the cached FTP connections, one record per host
  S3_CONNS,      \* the cached S3 connection, under the key 'S3'
  failed_files,  \* the list download_manifest builds and returns
  n_taken,       \* how many entries the for loop has taken from the manifest
  pc,            \* where download_manifest is: "loop", "open", "size",
                 \* "read", "verify", "returned", "raised"; "select" and
                 \* "selected" around a call of the selector alone
  mfile,         \* the entry being processed
  eps,           \* the priority tokens in effect for the entry
  url_list, file_name, current_byte, res, endpoint, url, endpoints, file_size,
  cand,          \* the position of `for url in url_list`
  disk0,         \* the files when the processing of the entry began
  attempts,      \* the value each candidate's open returned: "ok" or "error"
  net_calls,     \* transport calls (open, size, read) made for the entry
  probed,        \* the instance-metadata probe was made for the entry
  md,            \* the probe found instance metadata (len(md.keys()) > 0)
  first_read     \* the remote offset of the first byte requested, -1 if none

inputs == <<priorities, block_size, n_entries>>

conns == <<FTP_CONNS, S3_CONNS>>

locals ==
  <<url_list, file_name, current_byte, res, endpoint, url, endpoints, file_size,
    cand>>

vars ==
  <<priorities, block_size, n_entries, disk, FTP_CONNS, S3_CONNS, failed_files,
    n_taken, pc, mfile, eps, url_list, file_name, current_byte, res, endpoint,
    url, endpoints, file_size, cand, disk0, attempts, net_calls, probed, md,
    first_read>>

\* "{0}.partial".format(file_name)
tmp_file_name == [file_name EXCEPT !.partial = TRUE]

\* The destination directory before the run: empty, or x.bin complete, or a
\* partial x.bin left by an earlier run
InitialDisks ==
  {[p \in Paths |-> NoFile]} \cup
  {[p \in Paths |-> IF p = FinalPath("x.bin") THEN File(Foreign) ELSE NoFile]} \cup
  {[p \in Paths |-> IF p = PartialPath("x.bin") THEN File(d) ELSE NoFile] :
     d \in InitialPartials}

Init ==
  /\ priorities \in PriorityLists
  /\ block_size \in BlockSizes
  /\ n_entries \in 0..MaxEntries
  /\ disk \in InitialDisks
  /\ FTP_CONNS = {}
  /\ S3_CONNS = {}
  /\ failed_files = <<>>
  /\ n_taken = 0
  /\ pc = "loop"
  /\ mfile = [urls |-> <<>>, md5 |-> Md5Hex(<<>>)]
  /\ eps = <<>>
  /\ url_list = <<>>
  /\ file_name = FinalPath("")
  /\ current_byte = 0
  /\ res = NoRes
  /\ endpoint = EmptyStr
  /\ url = EmptyUrl
  /\ endpoints = <<>>
  /\ file_size = 0
  /\ cand = 0
  /\ disk0 = disk
  /\ attempts = <<>>
  /\ net_calls = 0
  /\ probed = FALSE
  /\ md = FALSE
  /\ first_read = -1

\* Mutant of Record: only the failure codes are appended
Record_failures_only(code) ==
  failed_files' = IF code = 0 THEN failed_files ELSE Append(failed_files, code)

\* failed_files.append(code)
Record(code) == failed_files' = Append(failed_files, code)

\* Mutant of ResumeOffset: the size of the partial file is not looked at
ResumeOffset_zero(d, tmp) == 0

\* current_byte as lines 79-81 set it
ResumeOffset(d, tmp) == IF Exists(d, tmp) THEN GetSize(d, tmp) ELSE 0

\* The locals of download_manifest before the iteration has assigned them.
\* Every local is assigned in an iteration before the iteration reads it, so
\* what an earlier iteration left in them is never read and is not kept.
Unset ==
  /\ file_name' = FinalPath("")
  /\ current_byte' = 0
  /\ res' = NoRes
  /\ endpoint' = EmptyStr
  /\ url' = EmptyUrl
  /\ endpoints' = <<>>
  /\ file_size' = 0
  /\ cand' = 0

\* Lines 61-90: the loop takes the next entry, selects its candidates and
\* either records 1, or records 0 for a file that is already there, or
\* prepares the download
NextEntry ==
  /\ pc = "loop"
  /\ n_taken < n_entries
  /\ \E m \in Entries, found \in BOOLEAN :
       LET probe == SplitPriorities(priorities)[1] = EmptyStr
           ul == get_prioritized_endpoint(m.urls, priorities, found)
           fname == FinalPath(Basename(ul[1]))
           tmp == PartialPath(Basename(ul[1]))
       IN /\ (~probe => ~found)
          /\ mfile' = m
          /\ eps' = EffectivePriorities(priorities, found)
          /\ probed' = probe
          /\ md' = found
          /\ url_list' = ul
          /\ n_taken' = n_taken + 1
          /\ disk0' = disk
          /\ attempts' = <<>>
          /\ net_calls' = 0
          /\ first_read' = -1
          /\ IF ul = <<>> THEN
               /\ Record(1)
               /\ Unset
               /\ UNCHANGED pc
             ELSE IF Exists(disk, fname) THEN
               /\ Record(0)
               /\ file_name' = fname
               /\ current_byte' = 0
               /\ res' = NoRes
               /\ endpoint' = EmptyStr
               /\ url' = EmptyUrl
               /\ endpoints' = <<>>
               /\ file_size' = 0
               /\ cand' = 0
               /\ UNCHANGED pc
             ELSE
               /\ file_name' = fname
               /\ current_byte' = ResumeOffset(disk, tmp)
               /\ res' = NoRes
               /\ endpoint' = EmptyStr
               /\ url' = EmptyUrl
               /\ endpoints' = <<>>
               /\ file_size' = 0
               /\ cand' = 1
               /\ pc' = "open"
               /\ UNCHANGED failed_files
  /\ UNCHANGED <<inputs, disk, conns>>

\* Lines 92-111: one pass of `for url in url_list`, and after the last
\* candidate the test of res and the opening of the partial file
OpenCandidate ==
  /\ pc = "open"
  /\ LET u == url_list[cand]
         ep == Upper(SchemeOf(u))
     IN /\ url' = u
        /\ endpoint' = ep
        /\ endpoints' = Append(endpoints, ep)
        /\ \E o \in (IF ep = FASP
                       THEN get_fasp_obj(u, FTP_CONNS, S3_CONNS)
                       ELSE get_url_obj(u, ep, current_byte, FTP_CONNS, S3_CONNS)) :
             /\ FTP_CONNS' = o.ftp
             /\ S3_CONNS' = o.s3
             /\ net_calls' = net_calls + o.net
             /\ IF o.exc THEN
                  /\ pc' = "raised"
                  /\ UNCHANGED <<res, attempts, cand, failed_files, n_taken, disk>>
                ELSE
                  /\ res' = o.res
                  /\ attempts' = Append(attempts, IF o.res = ErrorRes THEN "error" ELSE "ok")
                  /\ IF cand < Len(url_list) THEN
                       /\ cand' = cand + 1
                       /\ UNCHANGED <<pc, failed_files, disk>>
                     ELSE IF o.res = ErrorRes THEN
                       /\ Record(2)
                       /\ pc' = "loop"
                       /\ UNCHANGED <<cand, disk>>
                     ELSE
                       /\ disk' = OpenAppend(disk, tmp_file_name)
                       /\ pc' = "size"
                       /\ UNCHANGED <<cand, failed_files>>
                  /\ UNCHANGED n_taken
  /\ UNCHANGED <<inputs, mfile, eps, url_list, file_name, current_byte,
                 file_size, disk0, probed, md, first_read>>

\* Line 113, get_file_size(url, endpoint): the size of the remote file, or
\* the exception of the request
GetFileSize ==
  /\ pc = "size"
  /\ net_calls' = net_calls + 1
  /\ \/ /\ file_size' = res.size
        /\ pc' = "read"
     \/ /\ pc' = "raised"
        /\ UNCHANGED file_size
  /\ UNCHANGED <<inputs, disk, conns, failed_files, n_taken, mfile, eps,
                 url_list, file_name, current_byte, res, endpoint, url,
                 endpoints, cand, disk0, attempts, probed, md, first_read>>

\* Lines 119-131 with get_buffer for HTTP: one res.read(block_size)
ReadHTTP ==
  /\ pc = "read"
  /\ endpoint = HTTP
  /\ net_calls' = net_calls + 1
  /\ first_read' = IF first_read = -1 THEN res.pos ELSE first_read
  /\ \/ LET buffer == HttpRead(res, block_size)
        IN IF buffer = <<>> THEN
             /\ pc' = "verify"
             /\ UNCHANGED <<disk, current_byte, res>>
           ELSE
             /\ disk' = WriteAppend(disk, tmp_file_name, buffer)
             /\ current_byte' = current_byte + Len(buffer)
             /\ res' = [res EXCEPT !.pos = res.pos + Len(buffer)]
             /\ UNCHANGED pc
     \/ /\ pc' = "raised"
        /\ UNCHANGED <<disk, current_byte, res>>
  /\ UNCHANGED <<inputs, conns, failed_files, n_taken, mfile, eps, url_list,
                 file_name, endpoint, url, endpoints, file_size, cand, disk0,
                 attempts, probed, md>>

\* Lines 119-127 with get_buffer for FTP: retrbinary hands every block to
\* the callback, which writes it; get_buffer returns None and the loop ends.
\* A transfer that breaks has written some whole blocks before it raises.
ReadFTP ==
  /\ pc = "read"
  /\ endpoint = FTP
  /\ net_calls' = net_calls + 1
  /\ first_read' = current_byte
  /\ LET data == FtpRetr(res, current_byte)
     IN \/ /\ disk' = WriteAppend(disk, tmp_file_name, data)
           /\ pc' = "verify"
        \/ \E k \in 0..Len(data) :
             /\ k < Len(data) \/ data = <<>>
             /\ k % block_size = 0
             /\ disk' = WriteAppend(disk, tmp_file_name, SubSeq(data, 1, k))
             /\ pc' = "raised"
  /\ UNCHANGED <<inputs, conns, failed_files, n_taken, mfile, eps, url_list,
                 file_name, current_byte, res, endpoint, url, endpoints,
                 file_size, cand, disk0, attempts, probed, md>>

\* Lines 119-131 with get_buffer for S3: None once start_pos >= max_range,
\* else one Range request
ReadS3 ==
  /\ pc = "read"
  /\ endpoint = S3
  /\ IF current_byte >= file_size THEN
       /\ pc' = "verify"
       /\ UNCHANGED <<disk, current_byte, net_calls, first_read>>
     ELSE
       /\ net_calls' = net_calls + 1
       /\ first_read' = IF first_read = -1 THEN current_byte ELSE first_read
       /\ \/ LET buffer == S3Read(res, block_size, current_byte, file_size)
             IN IF buffer = <<>> THEN
                  /\ pc' = "verify"
                  /\ UNCHANGED <<disk, current_byte>>
                ELSE
                  /\ disk' = WriteAppend(disk, tmp_file_name, buffer)
                  /\ current_byte' = current_byte + Len(buffer)
                  /\ UNCHANGED pc
          \/ /\ pc' = "raised"
             /\ UNCHANGED <<disk, current_byte>>
  /\ UNCHANGED <<inputs, conns, failed_files, n_taken, mfile, eps, url_list,
                 file_name, res, endpoint, url, endpoints, file_size, cand,
                 disk0, attempts, probed, md>>

\* Mutant of Verify: a partial file that fails the checksum is deleted
Verify_discarding ==
  /\ pc = "verify"
  /\ IF checksum_matches(disk, tmp_file_name, mfile.md5) THEN
       /\ disk' = Move(disk, tmp_file_name, file_name)
       /\ Record(0)
     ELSE
       /\ Record(3)
       /\ disk' = [disk EXCEPT ![tmp_file_name] = NoFile]
  /\ pc' = "loop"
  /\ UNCHANGED <<inputs, conns, n_taken, mfile, eps, locals, disk0, attempts,
                 net_calls, probed, md, first_read>>

\* Lines 139-147: the checksum of the partial file decides between the
\* rename with code 0 and code 3
Verify ==
  /\ pc = "verify"
  /\ IF checksum_matches(disk, tmp_file_name, mfile.md5) THEN
       /\ disk' = Move(disk, tmp_file_name, file_name)
       /\ Record(0)
     ELSE
       /\ Record(3)
       /\ UNCHANGED disk
  /\ pc' = "loop"
  /\ UNCHANGED <<inputs, conns, n_taken, mfile, eps, locals, disk0, attempts,
                 net_calls, probed, md, first_read>>

\* Line 152: return failed_files
Return ==
  /\ pc = "loop"
  /\ n_taken = n_entries
  /\ pc' = "returned"
  /\ UNCHANGED <<inputs, disk, conns, failed_files, n_taken, mfile, eps, locals,
                 disk0, attempts, net_calls, probed, md, first_read>>

Next ==
  \/ NextEntry
  \/ OpenCandidate
  \/ GetFileSize
  \/ ReadHTTP
  \/ ReadFTP
  \/ ReadS3
  \/ Verify
  \/ Return

Spec == Init /\ [][Next]_vars

\* --------------------------------------- get_prioritized_endpoint, alone
\* The selector is a function of the entry's URLs, the priorities and the
\* answer of the metadata probe.  It is applied here to every URL list of up
\* to MaxUrls URLs and every priority list of up to MaxTokens tokens.
MaxUrls == 3

MaxTokens == 2

SeqsUpTo(S, n) == UNION {[1..k -> S] : k \in 0..n}

SelUrls == {U_http, U_https, U_ftp, U_s3}

SelTokens == {EmptyStr, http, https, FTP, s3}

InitSel ==
  /\ priorities \in SeqsUpTo(SelTokens, MaxTokens)
  /\ mfile \in [urls : SeqsUpTo(SelUrls, MaxUrls), md5 : Digests]
  /\ md \in BOOLEAN
  /\ SplitPriorities(priorities)[1] # EmptyStr => ~md
  /\ pc = "select"
  /\ block_size = 1
  /\ n_entries = 1
  /\ disk = [p \in Paths |-> NoFile]
  /\ FTP_CONNS = {}
  /\ S3_CONNS = {}
  /\ failed_files = <<>>
  /\ n_taken = 0
  /\ eps = <<>>
  /\ url_list = <<>>
  /\ file_name = FinalPath("")
  /\ current_byte = 0
  /\ res = NoRes
  /\ endpoint = EmptyStr
  /\ url = EmptyUrl
  /\ endpoints = <<>>
  /\ file_size = 0
  /\ cand = 0
  /\ disk0 = disk
  /\ attempts = <<>>
  /\ net_calls = 0
  /\ probed = FALSE
  /\ first_read = -1

\* Line 63: url_list = get_prioritized_endpoint(mfile['urls'], priorities)
Select ==
  /\ pc = "select"
  /\ url_list' = get_prioritized_endpoint(mfile.urls, priorities, md)
  /\ eps' = EffectivePriorities(priorities, md)
  /\ probed' = (SplitPriorities(priorities)[1] = EmptyStr)
  /\ pc' = "selected"
  /\ UNCHANGED <<inputs, disk, conns, failed_files, n_taken, mfile, file_name,
                 current_byte, res, endpoint, url, endpoints, file_size, cand,
                 disk0, attempts, net_calls, md, first_read>>

NextSel == Select

SpecSel == InitSel /\ [][NextSel]_vars

\* ------------------------------------------------------ reading the state
\* The processing of entry number n_taken has ended with a code
EntryDone == pc \in {"loop", "returned"} /\ n_taken > 0

\* The code of the entry whose processing has just ended
code == failed_files[n_taken]

\* Every candidate of the entry has been opened and the last open returned a
\* network object
OpenedLast ==
  /\ attempts # <<>>
  /\ Len(attempts) = Len(url_list)
  /\ attempts[Len(attempts)] = "ok"

\* The entry went through transfer and checksum
Downloaded == EntryDone /\ OpenedLast

\* The partial file the entry found when its processing began
partial0 == disk0[tmp_file_name]

\* Scheme token tok of a priority list names the scheme of URL u
Names(tok, u) == Lower(tok) = SchemeOf(u)

\* Some token of the priority list names the scheme of u
Listed(u, prio) == \E k \in 1..Len(prio) : Names(prio[k], u)

\* The position in the priority list of the earliest token that names the
\* scheme of one of the URLs
EarliestListed(urls, prio) ==
  CHOOSE k \in 1..Len(prio) :
    /\ \E n \in 1..Len(urls) : Names(prio[k], urls[n])
    /\ \A h \in 1..(k - 1) : \A n \in 1..Len(urls) : ~Names(prio[h], urls[n])

\* ------------------------------------------------------------------ claims

\* C1: the list holds exactly one code of {0,1,2,3} per entry processed, the
\* k-th code being appended when the k-th entry ends and never changed
\* afterwards, so that the list download_manifest returns for a manifest of
\* N entries has exactly N codes in manifest order.
C1_Shape ==
  /\ \A k \in 1..Len(failed_files) : failed_files[k] \in 0..3
  /\ pc \in {"loop", "returned"} => Len(failed_files) = n_taken
  /\ pc \in {"open", "size", "read", "verify"} => Len(failed_files) = n_taken - 1
  /\ pc = "returned" => Len(failed_files) = n_entries

C1_Step ==
  \/ failed_files' = failed_files
  \/ /\ \E c \in 0..3 : failed_files' = Append(failed_files, c)
     /\ Len(failed_files') = n_taken'
     /\ pc' = "loop"

C1_OneCodePerEntry == [](C1_Shape) /\ [][C1_Step]_vars

C1_Witness ==
  /\ pc = "returned"
  /\ n_entries = 2
  /\ failed_files = <<3, 0>>

\* C2: download_manifest never raises: no failure of one entry ends the run
\* without a code for that entry and for every other entry.
C2_NeverRaises == pc # "raised"

\* C3: when the first candidate's open fails and a later candidate's open
\* succeeds, the transfer uses a later candidate whose open succeeded and
\* the code of the entry is 0 or 3, never 2.
C3_Failover ==
  (/\ EntryDone
   /\ Len(attempts) >= 2
   /\ attempts[1] = "error"
   /\ \E k \in 2..Len(attempts) : attempts[k] = "ok")
  => /\ code \in {0, 3}
     /\ \E k \in 2..Len(attempts) : attempts[k] = "ok" /\ url = url_list[k]

\* C4: the transfer reads from the first candidate whose open succeeded, and
\* the code is 2 if and only if every candidate's open failed.
C4_FirstOpenWins ==
  (EntryDone /\ attempts # <<>>)
  => /\ code = 2 <=> \A k \in 1..Len(attempts) : attempts[k] = "error"
     /\ code # 2 =>
          \E k \in 1..Len(attempts) :
            /\ attempts[k] = "ok"
            /\ \A h \in 1..(k - 1) : attempts[h] = "error"
            /\ url = url_list[k]

\* C5: after a transfer, the final file exists only with code 0 and content
\* whose digest is the expected one; when the digest of the transferred
\* content differs the code is 3, the partial file is still there and the
\* final path does not exist.
C5_MismatchNeverRenamed ==
  Downloaded =>
    /\ disk[file_name].exists =>
         /\ code = 0
         /\ Md5Hex(disk[file_name].data) = mfile.md5
    /\ ~disk[file_name].exists =>
         /\ code = 3
         /\ disk[tmp_file_name].exists
         /\ Md5Hex(disk[tmp_file_name].data) # mfile.md5

C5_Witness ==
  /\ Downloaded
  /\ code = 3
  /\ ~disk[file_name].exists
  /\ disk[tmp_file_name].data = RemoteContent(MaxSize - 1)

\* The entry began with a partial file holding the first K bytes, 0 < K <
\* size, of the remote file that is read over HTTP, FTP or S3
ResumedFrom(K) ==
  /\ endpoint \in {HTTP, FTP, S3}
  /\ partial0.exists
  /\ K = Len(partial0.data)
  /\ partial0.data = RemoteContent(K)
  /\ 0 < K
  /\ K < res.size

\* C6: with a partial file holding the first K bytes of the remote file,
\* the first byte requested is the one at offset K, the partial file holds a
\* prefix of the remote file after every chunk, and at the end of the
\* transfer it equals the remote file.
C6_ResumeCorrect ==
  \A K \in 1..MaxSize :
    (pc \in {"read", "verify"} /\ ResumedFrom(K)) =>
      LET data == disk[tmp_file_name].data
      IN /\ first_read \in {-1, K}
         /\ Len(data) >= K
         /\ data = RemoteContent(Len(data))
         /\ pc = "verify" => first_read = K /\ data = RemoteContent(res.size)

C6_Witness ==
  /\ pc = "verify"
  /\ endpoint = S3
  /\ block_size = 1
  /\ ResumedFrom(1)
  /\ res.size = MaxSize

CleanStart ==
  \/ ~partial0.exists
  \/ /\ Len(partial0.data) <= res.size
     /\ partial0.data = RemoteContent(Len(partial0.data))

FinalExisted ==
  /\ n_taken > 0
  /\ url_list # <<>>
  /\ Basename(url_list[1]) \in Bases
  /\ disk0[FinalPath(Basename(url_list[1]))].exists

\* C8: an entry whose final file exists when its processing begins gets
\* code 0 at once: no transport call is made and no file changes.
C8_IdempotentSkip ==
  FinalExisted =>
    /\ EntryDone
    /\ code = 0
    /\ net_calls = 0
    /\ attempts = <<>>
    /\ disk = disk0

C8_Witness ==
  /\ FinalExisted
  /\ EntryDone
  /\ n_taken = 2
  /\ failed_files = <<0, 0>>
  /\ disk[FinalPath("x.bin")] = File(RemoteContent(MaxSize))

\* C9: an entry none of whose URLs has a scheme named by the priority list
\* in effect gets code 1, without a transport call or a change of a file.
C9_NoValidEndpoint ==
  (/\ n_taken > 0
   /\ \A n \in 1..Len(mfile.urls) : ~Listed(mfile.urls[n], eps))
  => /\ EntryDone
     /\ code = 1
     /\ net_calls = 0
     /\ attempts = <<>>
     /\ disk = disk0

\* C10: when two URLs of the entry have different schemes that the priority
\* list in effect both names, the first open is made against a URL whose
\* scheme is the one named earliest in the list.
C10_PriorityOrder ==
  (/\ n_taken > 0
   /\ endpoints # <<>>
   /\ \E a, b \in 1..Len(mfile.urls) :
        /\ SchemeOf(mfile.urls[a]) # SchemeOf(mfile.urls[b])
        /\ Listed(mfile.urls[a], eps)
        /\ Listed(mfile.urls[b], eps))
  => Lower(endpoints[1]) = Lower(eps[EarliestListed(mfile.urls, eps)])

\* C11: every URL the selector returns has a scheme that a token of the
\* priority list in effect names, letter case apart.
C11_OnlyListedSchemes ==
  n_taken > 0 => \A k \in 1..Len(url_list) : Listed(url_list[k], eps)

\* C12: when a transfer ends with code 0, the final file is
\* destination/<basename of the URL the bytes were read from>.
C12_NamedAfterUsedUrl ==
  (Downloaded /\ code = 0)
  => /\ file_name = FinalPath(Basename(url))
     /\ disk[FinalPath(Basename(url))].exists

\* C13: a failure while a candidate is opened is caught at that candidate:
\* every candidate whose open was begun has a recorded result, "ok" or
\* "error", and the loop goes on; no open ends the run.
C13_OpenFailureCaught ==
  n_taken > 0 => Len(attempts) = Len(endpoints)

\* C16: every candidate the selector returns is handed to the transport of
\* its scheme: the endpoint token derived from its URL is one the engine
\* has a transport for.
C16_SchemeDispatched ==
  n_taken > 0 =>
    \A k \in 1..Len(endpoints) : endpoints[k] \in {HTTP, FTP, S3, FASP}

\* C20: the candidate list holds no URL twice.
C20_NoCandidateTwice ==
  n_taken > 0 =>
    \A a, b \in 1..Len(url_list) : url_list[a] = url_list[b] => a = b

\* Byte sequence a is a prefix of byte sequence b
PrefixOf(a, b) == Len(a) <= Len(b) /\ SubSeq(b, 1, Len(a)) = a

\* The entry has a destination file name (its candidate list is not empty)
HasFileName == n_taken > 0 /\ file_name.base \in Bases

\* C15: after code 3, or code 2 with a partial file found at the start, the
\* partial file is on disk and the final file is not; a partial file that
\* was on disk when the entry began is gone only when this entry ended with
\* code 0 and the rename to its final path.
C15_PartialSurvives ==
  /\ (EntryDone /\ code \in {2, 3} /\ (code = 3 \/ partial0.exists))
     => /\ disk[tmp_file_name].exists
        /\ ~disk[file_name].exists
        /\ PrefixOf(partial0.data, disk[tmp_file_name].data)
  /\ \A p \in Paths :
       (p.partial /\ disk0[p].exists /\ ~disk[p].exists)
       => /\ HasFileName
          /\ p = tmp_file_name
          /\ EntryDone
          /\ code = 0
          /\ disk[file_name].exists
          /\ Md5Hex(disk[file_name].data) = mfile.md5

C15_Witness ==
  /\ EntryDone
  /\ code = 3
  /\ partial0 = File(RemoteContent(1))
  /\ disk[tmp_file_name] = File(RemoteContent(2))
  /\ ~disk[file_name].exists

\* The bytes of the entry's file: the partial file, or the final file once
\* the partial file has been renamed
FileBytes ==
  IF disk[tmp_file_name].exists THEN disk[tmp_file_name].data
  ELSE disk[file_name].data

\* C19: while an entry is processed the bytes its partial file held at the
\* start stay in place as a prefix of the file, and during an HTTP or S3
\* transfer the resume offset is the length of the partial file after every
\* chunk written.
C19_AppendOnly ==
  HasFileName =>
    /\ PrefixOf(partial0.data, FileBytes)
    /\ (pc \in {"size", "read", "verify"} /\ endpoint \in {HTTP, S3})
       => /\ disk[tmp_file_name].exists
          /\ current_byte = Len(disk[tmp_file_name].data)

C19_Witness ==
  /\ pc = "read"
  /\ endpoint = HTTP
  /\ block_size = 1
  /\ partial0 = File(RemoteContent(1))
  /\ disk[tmp_file_name] = File(RemoteContent(2))
  /\ current_byte = 2
  /\ res.size = 3

\* The hosts of the URLs of the manifests
Hosts == {u.host : u \in {U_http, U_https, U_ftp, U_s3, U_fasp, U_http_y}}

\* A cache holds one connection per key, the first one made for the key
OnePerKey(cache) ==
  \A c, d \in cache : c.serial = 1 /\ (c.key = d.key => c = d)

\* What a lookup in `cache` under `key` with outcome r does: a failed
\* attempt leaves the cache as it was, a cached connection is returned as it
\* is and the cache is left alone, a connection returned is the cached one
LookupKeeps(cache, key, r) ==
  /\ r.exc => r.cache = cache
  /\ Cached(cache, key) => ~r.exc /\ r.conn = Lookup(cache, key) /\ r.cache = cache
  /\ ~r.exc => r.conn = Lookup(r.cache, key) /\ cache \subseteq r.cache

C18_Caches ==
  /\ OnePerKey(FTP_CONNS)
  /\ OnePerKey(S3_CONNS)
  /\ \A c \in FTP_CONNS : c.key \in Hosts
  /\ \A c \in S3_CONNS : c.key = "S3"
  /\ \A h \in Hosts : \A r \in get_ftp_connection(FTP_CONNS, h) :
       LookupKeeps(FTP_CONNS, h, r)
  /\ \A r \in get_s3_connection(S3_CONNS) : LookupKeeps(S3_CONNS, "S3", r)

C18_Step ==
  /\ FTP_CONNS \subseteq FTP_CONNS'
  /\ S3_CONNS \subseteq S3_CONNS'
  /\ (FTP_CONNS' # FTP_CONNS \/ S3_CONNS' # S3_CONNS) => pc = "open"
  /\ FTP_CONNS' # FTP_CONNS =>
       /\ endpoint' = FTP
       /\ ~Cached(FTP_CONNS, url'.host)
       /\ FTP_CONNS' = FTP_CONNS \cup {Conn(url'.host, 1)}
  /\ S3_CONNS' # S3_CONNS =>
       /\ endpoint' = S3
       /\ S3_CONNS = {}
       /\ S3_CONNS' = {Conn("S3", 1)}

\* C18: in one batch run each cache holds at most one connection per key
\* (one per FTP host, one S3 connection), made at the first use of the key; a
\* lookup of a cached key returns that connection and leaves the cache
\* alone, an attempt that fails leaves the cache alone, and no step removes
\* or replaces a cached connection.
C18_ConnectionCache == [](C18_Caches) /\ [][C18_Step]_vars

C18_Witness ==
  /\ n_taken = 2
  /\ pc = "open"
  /\ url_list[cand] = U_ftp
  /\ FTP_CONNS = {Conn(U_ftp.host, 1)}
  /\ S3_CONNS = {Conn("S3", 1)}

\* download_manifest runs in one thread that never waits for anything but
\* its transport calls, which the claim takes to return: a step that can be
\* taken is taken
FairSpec == Spec /\ WF_vars(Next)

\* The run was ended by an exception of a transport call
TransportRaised == pc = "raised" /\ endpoint # FASP

\* C17: when every transport call returns, the batch eventually returns its
\* list of outcome codes.
C17_Terminates == <>(pc = "returned" \/ TransportRaised)

\* url matches token ep as the selector tests it
Matches(u, ep) == StartsWith(UrlText(u), Lower(ep))

\* The (token, URL) positions that match, and their order: by token first,
\* by the URL's place in the manifest within one token
MatchPairs(tokens, urls) ==
  {p \in (1..Len(tokens)) \X (1..Len(urls)) : Matches(urls[p[2]], tokens[p[1]])}

PairBefore(p, q) == p[1] < q[1] \/ (p[1] = q[1] /\ p[2] < q[2])

\* `list` holds one URL per matching position, in that order
GroupedByToken(list, tokens, urls) ==
  LET P == MatchPairs(tokens, urls)
  IN /\ Len(list) = Cardinality(P)
     /\ \A p \in P :
          list[1 + Cardinality({q \in P : PairBefore(q, p)})] = DemoRewrite(urls[p[2]])

\* C14: the selector returns the matching URLs grouped by token in the order
\* of the priority list and, within one token, in the order of the
\* manifest's URL list; for an empty priority list the order of the tokens is
\* S3, HTTP, FTP when instance metadata is found and HTTP, FTP, S3 otherwise.
C14_SelectorOrder ==
  pc = "selected" =>
    LET urls == SplitUrls(mfile.urls)
    IN /\ priorities = <<>> =>
            GroupedByToken(url_list, IF md THEN <<S3, HTTP, FTP>> ELSE <<HTTP, FTP, S3>>, urls)
       /\ (priorities # <<>> /\ priorities[1] # EmptyStr) =>
            GroupedByToken(url_list, priorities, urls)

C14_Witness ==
  /\ pc = "selected"
  /\ mfile.urls = <<U_http, U_ftp, U_https>>
  /\ priorities = <<FTP, http>>
  /\ url_list = <<U_ftp, U_http, U_https>>

====
